---- MODULE Spec2Model ----
(***************************************************************************)
(* Model of AWS_Classes.py: the DynamoDB class (find_top_quantity,         *)
(* put_item, update_table, upload_stash, reset_table) and the helper       *)
(* functions create_unique_ilvl_str and get_stash_quantities.              *)
(*                                                                         *)
(* Representation.  A Python str is a sequence of code points ("A" is      *)
(* <<65>>, "0A" is <<48, 65>>, '' is <<>>).  An ilvl value is either the   *)
(* empty string '' or an integer n; it is written <<>> or <<n>> so that    *)
(* the test  row['ilvl'] != ''  can be evaluated on both.  A DynamoDB item *)
(* is a function from its attribute names to their values, the table is a  *)
(* function from the Unique_IDs present to their items.                    *)
(***************************************************************************)
EXTENDS Integers, Sequences, FiniteSets, TLC

VARIABLES
    d_records,       \* SpecDerive: the (ilvl, item) pairs handed to the key derivation
    d_ids,           \* SpecDerive: create_unique_ilvl_str of each pair
    lvl_dict,        \* find_top_quantity: Unique_ID -> {item, ilvl, quantity}
    sorted_ids,      \* find_top_quantity: the keys of sorted_lvl_dict, in order
    item_list,       \* get_stash_quantities: the batch {'stashes': [{'items': [...]}]}
    unique_items,    \* the dict get_stash_quantities returns and update_table walks
    table,           \* the DynamoDB table: Unique_ID -> item
    prev_table,      \* the table when the operation last run (or the two runs) started
    counter,         \* update_table, reset_table: the number of keys the loop reached
    exc,             \* the exception that ended the operation last run, or "none"
    number_of_items, \* find_top_quantity: its argument
    top_response,    \* find_top_quantity: what it returned
    run_items,       \* SpecRace: the unique_items of each update_table run
    run_i,           \* SpecRace: the position of each run in its unique_items
    get_response,    \* SpecRace: the get_item response each run holds
    run_pc,          \* SpecRace: "get", "update", "done" or "raised", per run
    pc               \* "init", then the name of the step last taken

deriveVars == <<d_records, d_ids, lvl_dict, sorted_ids>>
storeVars  == <<table, prev_table, counter, exc>>
topVars    == <<number_of_items, top_response>>
raceVars   == <<run_items, run_i, get_response, run_pc>>
vars == <<d_records, d_ids, lvl_dict, sorted_ids, item_list, unique_items,
          table, prev_table, counter, exc, number_of_items, top_response,
          run_items, run_i, get_response, run_pc, pc>>

\* The value of a variable the specification at hand does not use.
Unused == <<>>

IdleDerive ==
    d_records = Unused /\ d_ids = Unused /\ lvl_dict = Unused /\ sorted_ids = Unused
IdleStore == prev_table = Unused /\ counter = 0 /\ exc = "none"
IdleTop   == number_of_items = 0 /\ top_response = Unused
IdleRace  ==
    run_items = Unused /\ run_i = Unused /\ get_response = Unused /\ run_pc = Unused

----------------------------------------------------------------------------
(* Python builtins on str and int *)

\* str(n) for n >= 0: the decimal digits of n as code points.
RECURSIVE Str(_)
Str(n) == IF n < 10 THEN <<48 + n>> ELSE Str(n \div 10) \o <<48 + (n % 10)>>

\* int(ilvl) of an ilvl value that is not ''.
IntOf(ilvl) == ilvl[1]

\* a < b on str: lexicographic by code point, a proper prefix is smaller.
RECURSIVE StrLess(_, _)
StrLess(a, b) ==
    IF b = <<>> THEN FALSE
    ELSE IF a = <<>> THEN TRUE
    ELSE IF a[1] # b[1] THEN a[1] < b[1]
    ELSE StrLess(Tail(a), Tail(b))

\* The smallest str of a non-empty finite set of str.
StrMin(S) == CHOOSE a \in S : \A b \in S \ {a} : StrLess(a, b)

\* sorted(S): the elements of S in ascending str order.
RECURSIVE Sorted(_)
Sorted(S) == IF S = {} THEN <<>> ELSE <<StrMin(S)>> \o Sorted(S \ {StrMin(S)})

----------------------------------------------------------------------------
(* create_unique_ilvl_str *)

create_unique_ilvl_str(ilvl, item) ==
    IF IntOf(ilvl) <= 90
    THEN <<48>> \o Str(100 - IntOf(ilvl)) \o item
    ELSE <<48, 48>> \o Str(100 - IntOf(ilvl)) \o item

----------------------------------------------------------------------------
(* SpecDerive: key derivation and the sort of find_top_quantity, on every  *)
(* pair of records with a level in MinLevel..MaxLevel.                     *)

MinLevel == 0
MaxLevel == 100

\* Item names: "A", "B", "0A", "AB".
DeriveNames == {<<65>>, <<66>>, <<48, 65>>, <<65, 66>>}

DeriveRecords == [ilvl : {<<l>> : l \in MinLevel..MaxLevel}, item : DeriveNames]

InitDerive ==
    /\ d_records \in [1..2 -> DeriveRecords]
    /\ d_ids = <<>>
    /\ lvl_dict = <<>>
    /\ sorted_ids = <<>>
    /\ pc = "init"
    /\ item_list = Unused
    /\ unique_items = Unused
    /\ table = Unused
    /\ IdleStore /\ IdleTop /\ IdleRace

\* The records are stored under their derived keys and scanned back into
\* lvl_dict; a later record of the same key replaces the earlier one.
Derive ==
    /\ pc = "init"
    /\ d_ids' = [i \in 1..2 |->
                    create_unique_ilvl_str(d_records[i].ilvl, d_records[i].item)]
    /\ lvl_dict' = [k \in {d_ids'[i] : i \in 1..2} |->
                    LET last == CHOOSE i \in 1..2 :
                                  /\ d_ids'[i] = k
                                  /\ \A j \in 1..2 : d_ids'[j] = k => j <= i
                    IN  [item |-> d_records[last].item,
                         ilvl |-> d_records[last].ilvl,
                         quantity |-> 1]]
    /\ pc' = "derived"
    /\ UNCHANGED <<d_records, sorted_ids, item_list, unique_items>>
    /\ UNCHANGED <<storeVars, topVars, raceVars>>

\* sorted_lvl_dict = sorted(lvl_dict.items(), key=lambda item: item[0])
SortLvlDict ==
    /\ pc = "derived"
    /\ sorted_ids' = Sorted(DOMAIN lvl_dict)
    /\ pc' = "sorted"
    /\ UNCHANGED <<d_records, d_ids, lvl_dict, item_list, unique_items>>
    /\ UNCHANGED <<storeVars, topVars, raceVars>>

NextDerive == Derive \/ SortLvlDict

SpecDerive == InitDerive /\ [][NextDerive]_vars

----------------------------------------------------------------------------
\* C1: for levels in 0..100, two (level, name) pairs derive the same
\* Unique_ID if and only if the levels are equal and the names are equal.
C1_CollisionFree ==
    pc # "init" =>
        ((d_ids[1] = d_ids[2]) <=> (d_records[1] = d_records[2]))

\* C2: the keys in ascending Unique_ID order have descending item levels,
\* and keys of equal level come in ascending item-name order.
C2_SortedByLevelDesc ==
    pc = "sorted" =>
        \A i, j \in 1..Len(sorted_ids) :
            i < j =>
                LET a == lvl_dict[sorted_ids[i]]
                    b == lvl_dict[sorted_ids[j]]
                IN  /\ IntOf(a.ilvl) >= IntOf(b.ilvl)
                    /\ IntOf(a.ilvl) = IntOf(b.ilvl) => StrLess(a.item, b.item)

----------------------------------------------------------------------------
(* get_stash_quantities *)

\* A Python dict keeps insertion order: order lists the keys as inserted,
\* entries maps each key to its value.
EmptyDict == [order |-> <<>>, entries |-> <<>>]

\* AddRow with a new entry starting from the quantity the store holds.
AddRow_MergesStore(items, row) ==
    IF row.name # <<>> /\ row.ilvl # <<>>
    THEN LET unique_ == create_unique_ilvl_str(row.ilvl, row.name)
         IN  IF unique_ \in DOMAIN items.entries
             THEN [items EXCEPT !.entries[unique_].quantity = @ + 1]
             ELSE [order   |-> Append(items.order, unique_),
                   entries |-> items.entries @@
                               (unique_ :> [ilvl |-> row.ilvl, item |-> row.name,
                                            quantity |->
                                                IF unique_ \in DOMAIN table
                                                THEN table[unique_].quantity + 1
                                                ELSE 1])]
    ELSE items

\* The body of the inner loop, lines 559-572, for one row.
AddRow(items, row) ==
    IF row.name # <<>> /\ row.ilvl # <<>>
    THEN LET unique_ == create_unique_ilvl_str(row.ilvl, row.name)
             level_  == row.ilvl
             item_   == row.name
         IN  IF unique_ \in DOMAIN items.entries
             THEN [items EXCEPT !.entries[unique_].quantity = @ + 1]
             ELSE [order   |-> Append(items.order, unique_),
                   entries |-> items.entries @@
                               (unique_ :> [ilvl |-> level_, item |-> item_,
                                            quantity |-> 1])]
    ELSE items

\* for row in stash['items']
RECURSIVE AddRows(_, _)
AddRows(items, rows) ==
    IF rows = <<>> THEN items ELSE AddRows(AddRow(items, Head(rows)), Tail(rows))

\* for stash in item_list['stashes']
RECURSIVE AddStashes(_, _)
AddStashes(items, stashes) ==
    IF stashes = <<>> THEN items
    ELSE AddStashes(AddRows(items, Head(stashes).items), Tail(stashes))

get_stash_quantities(list) == AddStashes(EmptyDict, list.stashes)

----------------------------------------------------------------------------
(* The snapshot batches fed to the model *)

\* The number of rows of a batch.
MaxRows == 3

\* Rows of the feed: an empty name, an empty ilvl, "A" at 90, "A" at 0 and
\* "0A" at 90.
RowKinds ==
    { [name |-> <<>>,       ilvl |-> <<90>>],
      [name |-> <<65>>,     ilvl |-> <<>>],
      [name |-> <<65>>,     ilvl |-> <<90>>],
      [name |-> <<65>>,     ilvl |-> <<0>>],
      [name |-> <<48, 65>>, ilvl |-> <<90>>] }

RowSeqs == UNION {[1..n -> RowKinds] : n \in 0..MaxRows}

\* Batches of no stash, of one stash, and of two stashes cut at any row.
Batches ==
    {[stashes |-> <<>>]}
    \cup {[stashes |-> <<[items |-> r]>>] : r \in RowSeqs}
    \cup UNION {{[stashes |-> <<[items |-> SubSeq(r, 1, c)],
                              [items |-> SubSeq(r, c + 1, Len(r))]>>] :
                  c \in 0..Len(r)} : r \in RowSeqs}

\* An item as put_item and upload_stash write it.
Item(q, l, i) == [quantity |-> q, ilvl |-> l, item |-> i]

----------------------------------------------------------------------------
(* SpecAggregate: get_stash_quantities on every batch, whatever the store  *)
(* holds.                                                                  *)

InitAggregate ==
    /\ item_list \in Batches
    /\ table \in { <<>>,
                   (create_unique_ilvl_str(<<90>>, <<65>>) :> Item(5, <<90>>, <<65>>)) }
    /\ unique_items = EmptyDict
    /\ pc = "init"
    /\ IdleDerive /\ IdleStore /\ IdleTop /\ IdleRace

Aggregate ==
    /\ pc = "init"
    /\ unique_items' = get_stash_quantities(item_list)
    /\ pc' = "aggregated"
    /\ UNCHANGED <<deriveVars, item_list, storeVars, topVars, raceVars>>

NextAggregate == Aggregate

SpecAggregate == InitAggregate /\ [][NextAggregate]_vars

\* The positions <<stash, row>> of the batch, and its row at a position.
Positions ==
    UNION {{<<s, i>> : i \in 1..Len(item_list.stashes[s].items)} :
              s \in 1..Len(item_list.stashes)}

RowAt(p) == item_list.stashes[p[1]].items[p[2]]

\* The rows with a non-empty name and a non-empty ilvl that derive key k.
RowsOfKey(k) ==
    {p \in Positions :
        /\ RowAt(p).name # <<>>
        /\ RowAt(p).ilvl # <<>>
        /\ create_unique_ilvl_str(RowAt(p).ilvl, RowAt(p).name) = k}

CountedPositions ==
    {p \in Positions : RowAt(p).name # <<>> /\ RowAt(p).ilvl # <<>>}

\* C3: the mapping returned has exactly one entry per distinct key derived
\* from the rows with a non-empty name and ilvl, each entry's quantity is the
\* number of such rows deriving its key, and the other rows add nothing;
\* this for every content of the store.
C3_AggregateCounts ==
    pc = "aggregated" =>
        /\ DOMAIN unique_items.entries =
               {create_unique_ilvl_str(RowAt(p).ilvl, RowAt(p).name) :
                    p \in CountedPositions}
        /\ Len(unique_items.order) = Cardinality(DOMAIN unique_items.entries)
        /\ {unique_items.order[i] : i \in 1..Len(unique_items.order)} =
               DOMAIN unique_items.entries
        /\ \A k \in DOMAIN unique_items.entries :
               unique_items.entries[k].quantity = Cardinality(RowsOfKey(k))

\* C3 witness: a batch with a skipped row and a key counted twice, with the
\* key already in the store.
C3_Witness ==
    /\ pc = "aggregated"
    /\ \E k \in DOMAIN unique_items.entries :
          /\ unique_items.entries[k].quantity = 2
          /\ k \in DOMAIN table
    /\ CountedPositions # Positions

----------------------------------------------------------------------------
(* The store: the boto3 Table calls the class makes *)

\* The largest quantity a record of the model holds.
MaxQuantity == 3

\* The number of items a scan returns per page.
PageSize == 1

\* t with the item of key k set to v.
Put(t, k, v) == [x \in DOMAIN t \cup {k} |-> IF x = k THEN v ELSE t[x]]

\* table.get_item(Key={'Unique_ID': k}): the response has 'Item' only when
\* the key is in the table.
GetItem(t, k) == IF k \in DOMAIN t THEN [Item |-> t[k]] ELSE <<>>

\* table.update_item(Key=k, UpdateExpression="SET a = :v, ..."): the item is
\* created when absent; the attributes named are set, the others are kept.
UpdateItem_Set(t, k, attrs) ==
    LET old == IF k \in DOMAIN t THEN t[k] ELSE <<>>
    IN  Put(t, k, [a \in DOMAIN old \cup DOMAIN attrs |->
                      IF a \in DOMAIN attrs THEN attrs[a] ELSE old[a]])

\* UpdateItem_Add writing the sum of :q and the quantity read by get_item
\* instead of incrementing in the store.
UpdateItem_AddOverwrite(t, k, q) == UpdateItem_Set(t, k, [quantity |-> q])

\* table.update_item(Key=k, UpdateExpression="SET quantity = quantity + :q"),
\* evaluated by the store on the item it holds.
UpdateItem_Add(t, k, q) == [t EXCEPT ![k].quantity = @ + q]

\* The print after a write reads 'item', 'ilvl' and 'quantity' (and, where
\* the code prints it, 'Unique_ID', which every item has) of the attributes
\* returned: a missing one raises KeyError.
PrintRaises(attributes) == ~({"item", "ilvl", "quantity"} \subseteq DOMAIN attributes)

\* The orders in which a scan can return the items of t.
ScanOrders(t) ==
    {f \in [1..Cardinality(DOMAIN t) -> DOMAIN t] :
        \A i, j \in 1..Cardinality(DOMAIN t) : f[i] = f[j] => i = j}

\* FilterExpression="quantity > :z" with :z = 1.
ResetFilter_AboveOne(item) == "quantity" \in DOMAIN item /\ item.quantity > 1

\* FilterExpression="quantity > :z" with :z = 0, of the scans of reset_table.
ResetFilter(item) == "quantity" \in DOMAIN item /\ item.quantity > 0

\* One scan call: the page starting at position start of the scan order,
\* with 'LastEvaluatedKey' when items remain after it.  The store reads the
\* page, then drops the items failing the FilterExpression, if one is given.
ScanPage(t, order, start, filtered) ==
    LET last == IF start + PageSize - 1 < Len(order)
                THEN start + PageSize - 1 ELSE Len(order)
        page == SubSeq(order, start, last)
    IN  [Items |-> IF filtered
                   THEN SelectSeq(page, LAMBDA k : ResetFilter(t[k]))
                   ELSE page,
         LastEvaluatedKey |-> IF last < Len(order) THEN last ELSE 0]

\* The first scan and the  while 'LastEvaluatedKey' in response  loop:
\* the Unique_IDs of the items returned, page after page.
RECURSIVE ScanLoop(_, _, _, _)
ScanLoop(t, order, start, filtered) ==
    LET response == ScanPage(t, order, start, filtered)
    IN  IF response.LastEvaluatedKey = 0 THEN response.Items
        ELSE response.Items
             \o ScanLoop(t, order, response.LastEvaluatedKey + 1, filtered)

----------------------------------------------------------------------------
(* update_table *)

\* UpdateWrite with the present branch writing the quantity read by
\* get_item plus :q, a value computed by the run, not by the store.
UpdateWrite_FromRead(t, response, k, q) ==
    IF "Item" \in DOMAIN response
    THEN UpdateItem_Set(t, k, [quantity |-> response.Item.quantity + q])
    ELSE UpdateItem_Set(t, k, [quantity |-> q])

\* The update_item call of one iteration, lines 232-253, chosen by the
\* get_item response the run holds: the table after the write.
UpdateWrite(t, response, k, q) ==
    IF "Item" \in DOMAIN response
    THEN UpdateItem_Add(t, k, q)
    ELSE UpdateItem_Set(t, k, [quantity |-> q])

\* One iteration of the loop, lines 225-253, with no other writer between
\* its get_item and its update_item.
UpdateKey(t, k, q) == UpdateWrite(t, GetItem(t, k), k, q)

\* The loop from position i on: the table it leaves, the counter, and the
\* exception that ended it.
RECURSIVE UpdateLoop(_, _, _)
UpdateLoop(t, items, i) ==
    IF i > Len(items.order)
    THEN [table |-> t, counter |-> i - 1, exc |-> "none"]
    ELSE LET k  == items.order[i]
             t2 == UpdateKey(t, k, items.entries[k].quantity)
         IN  IF PrintRaises(t2[k])
             THEN [table |-> t2, counter |-> i, exc |-> "KeyError"]
             ELSE UpdateLoop(t2, items, i + 1)

update_table(t, items) == UpdateLoop(t, items, 1)

----------------------------------------------------------------------------
(* upload_stash *)

\* The rows of the batch, in loop order, that pass the test of line 277.
RECURSIVE NamedRows(_)
NamedRows(stashes) ==
    IF stashes = <<>> THEN <<>>
    ELSE SelectSeq(Head(stashes).items,
                   LAMBDA row : row.name # <<>> /\ row.ilvl # <<>>)
         \o NamedRows(Tail(stashes))

\* UploadRow without the  if 'Item' in get_response: continue.
UploadRow_NoContinue(t, row) ==
    UpdateItem_Set(t, create_unique_ilvl_str(row.ilvl, row.name),
                   Item(0, row.ilvl, row.name))

\* Lines 278-304 for one row, with the module-level name  table  bound to
\* the table of the object.
UploadRow(t, row) ==
    LET unique_  == create_unique_ilvl_str(row.ilvl, row.name)
        response == GetItem(t, unique_)
    IN  IF "Item" \in DOMAIN response
        THEN t
        ELSE UpdateItem_Set(t, unique_, Item(0, row.ilvl, row.name))

\* The loop over the rows.  Line 290 calls  table.update_item, not
\* self.table.update_item: when the importing program has bound no global
\* table  the call raises NameError.
RECURSIVE UploadLoop(_, _, _)
UploadLoop(t, rows, bound) ==
    IF rows = <<>> THEN [table |-> t, exc |-> "none"]
    ELSE LET t2 == UploadRow(t, Head(rows))
         IN  IF t2 # t /\ ~bound
             THEN [table |-> t, exc |-> "NameError"]
             ELSE UploadLoop(t2, Tail(rows), bound)

upload_stash(t, rows, bound) == UploadLoop(t, rows, bound)

----------------------------------------------------------------------------
(* put_item *)

HexValue(c) ==
    IF c \in 48..57 THEN c - 48
    ELSE IF c \in 65..70 THEN c - 55
    ELSE IF c \in 97..102 THEN c - 87
    ELSE -1

\* urllib.parse.unquote on ASCII: %XX becomes the character of code XX.
RECURSIVE url_decode(_)
url_decode(string) ==
    IF string = <<>> THEN <<>>
    ELSE IF /\ Len(string) >= 3
            /\ string[1] = 37
            /\ HexValue(string[2]) >= 0
            /\ HexValue(string[3]) >= 0
         THEN <<16 * HexValue(string[2]) + HexValue(string[3])>>
              \o url_decode(SubSeq(string, 4, Len(string)))
         ELSE <<string[1]>> \o url_decode(Tail(string))

put_item(t, item, ilvl, quantity) ==
    LET item_     == url_decode(item)
        Unique_ID == create_unique_ilvl_str(ilvl, item_)
    IN  UpdateItem_Set(t, Unique_ID, Item(quantity, ilvl, item_))

----------------------------------------------------------------------------
(* reset_table *)

\* The second loop, lines 356-375, from position i on.  ReturnValues is
\* ALL_OLD: the print reads the item as it was before the write.
RECURSIVE ResetLoop(_, _, _)
ResetLoop(t, unique_ids, i) ==
    IF i > Len(unique_ids)
    THEN [table |-> t, counter |-> i - 1, exc |-> "none"]
    ELSE LET unique == unique_ids[i]
             t2     == UpdateItem_Set(t, unique, [quantity |-> 0])
         IN  IF PrintRaises(t[unique])
             THEN [table |-> t2, counter |-> i, exc |-> "KeyError"]
             ELSE ResetLoop(t2, unique_ids, i + 1)

reset_table(t, order) ==
    LET unique_ids == ScanLoop(t, order, 1, TRUE)
    IN  ResetLoop(t, unique_ids, 1)

----------------------------------------------------------------------------
(* Spec: the write operations of one DynamoDB object, run one at a time    *)

\* The dicts update_table is fed: get_stash_quantities of every batch.
AggregatedDicts == {get_stash_quantities(b) : b \in Batches}

\* The rows upload_stash writes from: those of every batch.
UploadRows == {NamedRows(b.stashes) : b \in Batches}

\* put_item arguments: "A" and "%41" at 90, "A" at 0, "0A" at 90.
PutArguments ==
    { <<<<65>>, <<90>>>>, <<<<37, 52, 49>>, <<90>>>>,
      <<<<65>>, <<0>>>>,  <<<<48, 65>>, <<90>>>> }

WithinBounds(t) ==
    \A k \in DOMAIN t : "quantity" \in DOMAIN t[k] => t[k].quantity <= MaxQuantity

Init ==
    /\ table = <<>>
    /\ prev_table = <<>>
    /\ unique_items = EmptyDict
    /\ counter = 0
    /\ exc = "none"
    /\ pc = "init"
    /\ item_list = Unused
    /\ IdleDerive /\ IdleTop /\ IdleRace

UpdateTable ==
    \E items \in AggregatedDicts :
        LET r == update_table(table, items)
        IN  /\ WithinBounds(r.table)
            /\ unique_items' = items
            /\ prev_table' = table
            /\ table' = r.table
            /\ counter' = r.counter
            /\ exc' = r.exc
            /\ pc' = "update_table"
            /\ UNCHANGED <<deriveVars, item_list, topVars, raceVars>>

UploadStash ==
    \E rows \in UploadRows, bound \in BOOLEAN :
        LET r == upload_stash(table, rows, bound)
        IN  /\ prev_table' = table
            /\ table' = r.table
            /\ exc' = r.exc
            /\ counter' = 0
            /\ unique_items' = EmptyDict
            /\ pc' = "upload_stash"
            /\ UNCHANGED <<deriveVars, item_list, topVars, raceVars>>

PutItem ==
    \E a \in PutArguments, quantity \in 0..MaxQuantity :
        /\ prev_table' = table
        /\ table' = put_item(table, a[1], a[2], quantity)
        /\ exc' = "none"
        /\ counter' = 0
        /\ unique_items' = EmptyDict
        /\ pc' = "put_item"
        /\ UNCHANGED <<deriveVars, item_list, topVars, raceVars>>

ResetTable ==
    \E order \in ScanOrders(table) :
        LET r == reset_table(table, order)
        IN  /\ prev_table' = table
            /\ table' = r.table
            /\ counter' = r.counter
            /\ exc' = r.exc
            /\ unique_items' = EmptyDict
            /\ pc' = "reset_table"
            /\ UNCHANGED <<deriveVars, item_list, topVars, raceVars>>

Next == UpdateTable \/ UploadStash \/ PutItem \/ ResetTable

Spec == Init /\ [][Next]_vars

TypeOK ==
    /\ \A k \in DOMAIN table : "quantity" \in DOMAIN table[k]
    /\ WithinBounds(table)

----------------------------------------------------------------------------
(* find_top_quantity *)

\* Lines 70-87 read 'item', 'ilvl' and 'quantity' of every item scanned.
ScanRaises(t) == \E k \in DOMAIN t : PrintRaises(t[k])

\* The loop of lines 109-121 from position i of the sorted keys on, with
\* the total, the counter and the json_list built so far.
RECURSIVE TopLoop(_, _, _, _, _, _, _)
TopLoop(d, ids, i, total, count, json_list, n) ==
    IF i > Len(ids) THEN json_list
    ELSE LET entry == d[ids[i]]
             taken == entry.quantity > 0
             total2 == IF taken THEN total + entry.quantity ELSE total
             count2 == IF taken THEN count + 1 ELSE count
             list2  == IF taken THEN Append(json_list, entry) ELSE json_list
         IN  IF total2 >= n \/ count2 >= n
             THEN list2
             ELSE TopLoop(d, ids, i + 1, total2, count2, list2, n)

\* The response: the exception raised, or the "Table is empty" message, or
\* the json_list.
find_top_quantity(t, order, n) ==
    LET scanned == ScanLoop(t, order, 1, FALSE)
        d == [k \in {scanned[i] : i \in 1..Len(scanned)} |->
                 [item |-> t[k].item, ilvl |-> t[k].ilvl, quantity |-> t[k].quantity]]
    IN  IF ScanRaises(t)
        THEN [exc |-> "KeyError", message |-> FALSE, json_list |-> <<>>]
        ELSE IF Cardinality(DOMAIN d) = 0
        THEN [exc |-> "none", message |-> TRUE, json_list |-> <<>>]
        ELSE [exc |-> "none", message |-> FALSE,
              json_list |-> TopLoop(d, Sorted(DOMAIN d), 1, 0, 0, <<>>, n)]

----------------------------------------------------------------------------
(* SpecTop: find_top_quantity on every table of up to three records *)

\* The largest number_of_items asked for.
MaxN == 4

\* "A" at 95, "A" at 90, "B" at 90.
TopRecords ==
    { [ilvl |-> <<95>>, item |-> <<65>>],
      [ilvl |-> <<90>>, item |-> <<65>>],
      [ilvl |-> <<90>>, item |-> <<66>>] }

\* The tables put_item builds from a set of records and their quantities.
TopTables ==
    UNION {{[k \in {create_unique_ilvl_str(r.ilvl, r.item) : r \in R} |->
                LET r == CHOOSE x \in R : create_unique_ilvl_str(x.ilvl, x.item) = k
                IN  Item(q[r], r.ilvl, r.item)] :
            q \in [R -> 0..MaxQuantity]} : R \in SUBSET TopRecords}

InitTop ==
    /\ table \in TopTables
    /\ number_of_items \in 0..MaxN
    /\ top_response = Unused
    /\ pc = "init"
    /\ item_list = Unused
    /\ unique_items = Unused
    /\ IdleDerive /\ IdleStore /\ IdleRace

FindTopQuantity ==
    /\ pc = "init"
    /\ \E order \in ScanOrders(table) :
          top_response' = find_top_quantity(table, order, number_of_items)
    /\ pc' = "find_top_quantity"
    /\ UNCHANGED <<deriveVars, item_list, unique_items, storeVars,
                   number_of_items, raceVars>>

NextTop == FindTopQuantity

SpecTop == InitTop /\ [][NextTop]_vars

\* The records of the table with quantity > 0, in ascending Unique_ID order.
PositiveEntries ==
    LET ids == SelectSeq(Sorted(DOMAIN table), LAMBDA k : table[k].quantity > 0)
    IN  [i \in 1..Len(ids) |-> table[ids[i]]]

RECURSIVE SumQuantity(_, _)
SumQuantity(entries, j) ==
    IF j = 0 THEN 0 ELSE entries[j].quantity + SumQuantity(entries, j - 1)

\* The lengths j of a prefix of PositiveEntries at which the count of its
\* records, or their summed quantity, has reached n.
Reached(n) ==
    {j \in 0..Len(PositiveEntries) : j >= n \/ SumQuantity(PositiveEntries, j) >= n}

ExpectedTop(n) ==
    IF Reached(n) = {} THEN PositiveEntries
    ELSE SubSeq(PositiveEntries, 1,
                CHOOSE j \in Reached(n) : \A m \in Reached(n) : j <= m)

\* C8: on a non-empty table find_top_quantity(n) returns, in ascending
\* Unique_ID order, the records with quantity > 0 up to and including the
\* first at which their count or summed quantity reaches n (all of them when
\* neither does), no record of quantity 0, and at most n records.
C8_TopQuantity ==
    (pc = "find_top_quantity" /\ DOMAIN table # {}) =>
        /\ top_response.exc = "none"
        /\ ~top_response.message
        /\ top_response.json_list = ExpectedTop(number_of_items)
        /\ \A i \in 1..Len(top_response.json_list) :
              top_response.json_list[i].quantity > 0
        /\ Len(top_response.json_list) <= number_of_items

\* The statement of C8 for number_of_items >= 1, where the code meets it.
TopQuantityFromOne == number_of_items >= 1 => C8_TopQuantity

----------------------------------------------------------------------------
(* Claims on Spec.  prev_table is the table before the operation named by  *)
(* pc, table the one it left; update_table reached the first  counter  keys *)
(* of unique_items.                                                        *)

\* The keys of unique_items the loop of update_table reached.
ReachedKeys == {unique_items.order[i] : i \in 1..counter}

\* C4: when update_table processes an aggregated key with no record in the
\* store, its write creates a record carrying the aggregated quantity, the
\* item level and the item name, and the step completes without error.
C4_AbsentKeyCreatesFullRecord ==
    pc = "update_table" =>
        \A k \in ReachedKeys \ DOMAIN prev_table :
            /\ k \in DOMAIN table
            /\ DOMAIN table[k] = {"quantity", "ilvl", "item"}
            /\ table[k] = Item(unique_items.entries[k].quantity,
                               unique_items.entries[k].ilvl,
                               unique_items.entries[k].item)
            /\ exc = "none"

\* C5: when update_table processes an aggregated key that has a record, the
\* record's quantity becomes its previous quantity plus the aggregated one,
\* its other attributes are unchanged, and the records of keys not in the
\* aggregated mapping are unchanged.
C5_PresentKeyIncrements ==
    pc = "update_table" =>
        /\ \A k \in ReachedKeys \cap DOMAIN prev_table :
              /\ k \in DOMAIN table
              /\ table[k] = [prev_table[k] EXCEPT
                                !.quantity = @ + unique_items.entries[k].quantity]
        /\ \A k \in DOMAIN prev_table \ DOMAIN unique_items.entries :
              k \in DOMAIN table /\ table[k] = prev_table[k]

\* C5 witness: update_table incremented a record that has a name and a level
\* while another record, not in the mapping, was in the table.
C5_Witness ==
    /\ pc = "update_table"
    /\ \E k \in ReachedKeys \cap DOMAIN prev_table :
          /\ "item" \in DOMAIN prev_table[k]
          /\ table[k].quantity > prev_table[k].quantity
    /\ DOMAIN prev_table \ DOMAIN unique_items.entries # {}

\* C6: an update_table or an upload_stash never lowers the quantity of a
\* record that exists, and removes no record.
C6_QuantityNonDecreasing ==
    pc \in {"update_table", "upload_stash"} =>
        \A k \in DOMAIN prev_table :
            /\ k \in DOMAIN table
            /\ table[k].quantity >= prev_table[k].quantity

\* C6 witness: an upload_stash that wrote a new record next to a record of
\* quantity > 0 that it found and left alone.
C6_Witness ==
    /\ pc = "upload_stash"
    /\ exc = "none"
    /\ DOMAIN table # DOMAIN prev_table
    /\ \E k \in DOMAIN prev_table : prev_table[k].quantity > 0

\* C7: every record of the table has a non-empty item name and an item
\* level.
C7_RecordsNamedAndLevelled ==
    \A k \in DOMAIN table :
        /\ "item" \in DOMAIN table[k]
        /\ table[k].item # <<>>
        /\ "ilvl" \in DOMAIN table[k]

\* C9: once reset_table has completed on a non-empty table, every record has
\* quantity 0, the keys and the other attributes are as before, and
\* find_top_quantity(n) returns no entry with quantity > 0, for every n and
\* every scan order.
C9_ResetThenTopEmpty ==
    (pc = "reset_table" /\ exc = "none" /\ DOMAIN prev_table # {}) =>
        /\ DOMAIN table = DOMAIN prev_table
        /\ \A k \in DOMAIN table :
              /\ table[k].quantity = 0
              /\ DOMAIN table[k] = DOMAIN prev_table[k]
              /\ \A a \in DOMAIN table[k] \ {"quantity"} :
                    table[k][a] = prev_table[k][a]
        /\ \A n \in 0..MaxN : \A order \in ScanOrders(table) :
              LET response == find_top_quantity(table, order, n)
              IN  \A i \in 1..Len(response.json_list) :
                      response.json_list[i].quantity <= 0

\* C9 witness: a reset_table that completed on a table of two records, both
\* with quantity > 0.
C9_Witness ==
    /\ pc = "reset_table"
    /\ exc = "none"
    /\ Cardinality(DOMAIN prev_table) >= 2
    /\ \A k \in DOMAIN prev_table : prev_table[k].quantity > 0
    /\ counter = 2

----------------------------------------------------------------------------
(* SpecRace: two update_table runs on the same table, interleaved at the   *)
(* get_item and update_item calls.                                         *)

Runs == {1, 2}

\* The table the two runs start from: empty, "A" at 90 with quantity 1, or
\* that record and "A" at 0 with quantity 0 as upload_stash leaves it.
RaceTables ==
    { <<>>,
      put_item(<<>>, <<65>>, <<90>>, 1),
      put_item(put_item(<<>>, <<65>>, <<90>>, 1), <<65>>, <<0>>, 0) }

InitRace ==
    /\ table \in RaceTables
    /\ prev_table = table
    /\ run_items \in [Runs -> AggregatedDicts \ {EmptyDict}]
    /\ run_i = [r \in Runs |-> 1]
    /\ get_response = [r \in Runs |-> <<>>]
    /\ run_pc = [r \in Runs |-> "get"]
    /\ counter = 0
    /\ exc = "none"
    /\ unique_items = Unused
    /\ item_list = Unused
    /\ pc = "init"
    /\ IdleDerive /\ IdleTop

\* The key run r is at.
RunKey(r) == run_items[r].order[run_i[r]]

\* Lines 226-230: run r reads its key.
RunGet(r) ==
    /\ run_pc[r] = "get"
    /\ get_response' = [get_response EXCEPT ![r] = GetItem(table, RunKey(r))]
    /\ run_pc' = [run_pc EXCEPT ![r] = "update"]
    /\ pc' = "get_item"
    /\ UNCHANGED <<deriveVars, item_list, unique_items, storeVars, topVars,
                   run_items, run_i>>

\* Lines 232-260: run r writes its key as the response it holds tells it
\* to, prints the attributes returned, and goes on to its next key.
RunUpdate(r) ==
    /\ run_pc[r] = "update"
    /\ LET k == RunKey(r)
           t2 == UpdateWrite(table, get_response[r], k,
                             run_items[r].entries[k].quantity)
       IN  /\ table' = t2
           /\ IF PrintRaises(t2[k])
              THEN /\ run_pc' = [run_pc EXCEPT ![r] = "raised"]
                   /\ run_i' = run_i
              ELSE IF run_i[r] < Len(run_items[r].order)
              THEN /\ run_pc' = [run_pc EXCEPT ![r] = "get"]
                   /\ run_i' = [run_i EXCEPT ![r] = @ + 1]
              ELSE /\ run_pc' = [run_pc EXCEPT ![r] = "done"]
                   /\ run_i' = run_i
    /\ pc' = "update_item"
    /\ UNCHANGED <<deriveVars, item_list, unique_items, prev_table, counter, exc,
                   topVars, run_items, get_response>>

NextRace == \E r \in Runs : RunGet(r) \/ RunUpdate(r)

SpecRace == InitRace /\ [][NextRace]_vars

\* Run r has issued its update_item for key k.
Wrote(r, k) ==
    \E i \in 1..Len(run_items[r].order) :
        /\ run_items[r].order[i] = k
        /\ \/ i < run_i[r]
           \/ i = run_i[r] /\ run_pc[r] \in {"done", "raised"}

\* The quantity of key k before the runs started, 0 if it had no record.
PriorQuantity(k) == IF k \in DOMAIN prev_table THEN prev_table[k].quantity ELSE 0

\* The keys both runs have written, and what the two runs add to such a key.
WrittenByBoth == {k \in DOMAIN table : \A r \in Runs : Wrote(r, k)}

SumOfRuns(k) == run_items[1].entries[k].quantity + run_items[2].entries[k].quantity

\* C10: two overlapping update_table runs can lose an update: an
\* interleaving is reachable after which a key both runs wrote holds less
\* than its prior quantity plus the two aggregated quantities (C10_Witness).
\* Whenever that happens the key had no record when the runs started, and it
\* holds the aggregated quantity of one run alone.
C10_LostUpdateOnlyOnAbsentKey ==
    \A k \in WrittenByBoth :
        table[k].quantity < PriorQuantity(k) + SumOfRuns(k) =>
            /\ k \notin DOMAIN prev_table
            /\ \E r \in Runs : table[k].quantity = run_items[r].entries[k].quantity

\* C10 witness: both runs have written a key and its quantity is below the
\* prior quantity plus the sum of the two aggregated quantities.
C10_Witness ==
    \E k \in WrittenByBoth : table[k].quantity < PriorQuantity(k) + SumOfRuns(k)

\* C11: a key that had a record when the two runs started holds, once both
\* runs have written it, its prior quantity plus the aggregated quantities
\* of both runs, whatever the interleaving of their store calls: the write
\* of the present branch is an increment the store evaluates.
C11_PresentKeyKeepsBothIncrements ==
    \A k \in WrittenByBoth \cap DOMAIN prev_table :
        table[k].quantity = PriorQuantity(k) + SumOfRuns(k)

\* C11 witness: both runs read the prior quantity of a key that had a
\* record, before either wrote it, and both have written it since.
C11_Witness ==
    \E k \in WrittenByBoth \cap DOMAIN prev_table :
        \A r \in Runs :
            /\ RunKey(r) = k
            /\ "Item" \in DOMAIN get_response[r]
            /\ get_response[r].Item.quantity = PriorQuantity(k)
====
